---- MODULE Spec2Model ----
(***************************************************************************)
(* A model of apk_patch_size_estimator.py: main()'s argument validation    *)
(* and the calculate_sizes() pipeline, run over an explicit file system.   *)
(* A path is a sequence of name components: <<dir, name, suffix, ...>>,    *)
(* so that `path + '.gz'` is Append(path, ".gz") and two paths are the     *)
(* same file exactly when the strings the program builds are equal.        *)
(***************************************************************************)
EXTENDS Integers, Sequences, FiniteSets, TLC

\* ------------------------------------------------------------------ bounds
\* Number of bytes of the "old" test content family (contents are built from it).
MaxData == 4
\* Largest absolute value of a spurious exit status an external tool may return.
MaxRc == 1

\* --------------------------------------------------------- program constants
\* head -c 32 / tail -c +33: the length of the bsdiff header.
HeaderLen == 32
TailFrom == 33

\* ------------------------------------------------------------ byte strings
Take(s, n) == SubSeq(s, 1, IF n < Len(s) THEN n ELSE Len(s))
Drop(s, n) == SubSeq(s, n + 1, Len(s))
Min(a, b) == IF a < b THEN a ELSE b

NoFile == [exists |-> FALSE, data |-> <<>>]
File(d) == [exists |-> TRUE, data |-> d]

\* ---------------------------------------------------------- external codecs
\* bzip2, the codec bsdiff applies to its payload: a magic, the transformed
\* bytes, and a length trailer.  Bunzip2Valid/Bunzip2Data invert it.
BzMagic == <<66, 90, 104>>
Bzip2Data(x) == BzMagic \o [k \in 1..Len(x) |-> (x[Len(x) + 1 - k] + 1) % 256] \o <<Len(x) % 256>>
Bunzip2Valid(y) ==
    /\ Len(y) >= Len(BzMagic) + 1
    /\ Take(y, Len(BzMagic)) = BzMagic
    /\ y[Len(y)] = (Len(y) - Len(BzMagic) - 1) % 256
Bunzip2Data(y) ==
    LET n == Len(y) - Len(BzMagic) - 1
        body == SubSeq(y, Len(BzMagic) + 1, Len(y) - 1)
    IN  [k \in 1..n |-> (body[n + 1 - k] + 255) % 256]

\* gzip -9: a magic, a run-length coding of the input, and a length trailer.
GzMagic == <<31, 139>>
RECURSIVE RunLength(_)
RunLength(x) ==
    IF x = <<>> THEN <<>>
    ELSE LET b == x[1]
             run == CHOOSE n \in 1..Len(x) :
                       /\ \A k \in 1..n : x[k] = b
                       /\ (n = Len(x) \/ x[n + 1] # b)
         IN  <<run, b>> \o RunLength(Drop(x, run))
Gzip9Data(x) == GzMagic \o RunLength(x) \o <<Len(x) % 256>>

\* bsdiff old new patch: a 32-byte header ("BSDIFF40" and three 8-byte
\* lengths) followed by the bzip2-compressed payload.
BsdiffMagic == <<66, 83, 68, 73, 70, 70, 52, 48>>
Le8(n) == <<n % 256, 0, 0, 0, 0, 0, 0, 0>>
BsdiffPayload(old, new) ==
    LET n == Min(Len(old), Len(new))
    IN  [k \in 1..n |-> (new[k] + 256 - old[k]) % 256] \o Drop(new, n)
BsdiffData(old, new) ==
    BsdiffMagic \o Le8(0) \o Le8(Min(Len(old), Len(new))) \o Le8(Len(new))
        \o Bzip2Data(BsdiffPayload(old, new))

\* -------------------------------------------------------------------- paths
\* Directories of the model: "w" holds the inputs and the saved patch, "t"
\* and "u" are the candidate --temp-dir values.
DirNames == {"w", "t", "u"}
TempDirs == {"t", "u"}

NoPath == <<>>

\* A variant of TempPath that ignores --temp-dir (a hard-coded /tmp/patch.tmp).
TempPathIgnoringTempDir(temp_dir) == <<"t", "patch.tmp">>
\* main: temp_path = args.temp_dir + '/patch.tmp'
TempPath(temp_dir) == <<temp_dir, "patch.tmp">>

\* calculate_sizes: the paths derived from temp_path and save_patch_path.
raw_bsdiff_path(temp_path) == Append(temp_path, ".raw_bsdiff")
bzipped_bsdiff_path(temp_path) == Append(raw_bsdiff_path(temp_path), ".bz2")
gzipped_bsdiff_path(temp_path) == Append(raw_bsdiff_path(temp_path), ".gz")
bsdiff_header_path(temp_path) == Append(temp_path, ".raw_bsdiff_header")
rebuilt_bsdiff_path(save_patch_path, temp_path) ==
    IF save_patch_path # NoPath THEN save_patch_path
    ELSE Append(raw_bsdiff_path(temp_path), ".rebuilt")
Gz(path) == Append(path, ".gz")

\* The paths derived from temp_path alone.
TempArea(temp_path) ==
    { temp_path, Gz(temp_path), raw_bsdiff_path(temp_path),
      bzipped_bsdiff_path(temp_path), gzipped_bsdiff_path(temp_path),
      bsdiff_header_path(temp_path),
      rebuilt_bsdiff_path(NoPath, temp_path),
      Gz(rebuilt_bsdiff_path(NoPath, temp_path)) }

\* Every path one call of calculate_sizes may create, truncate or remove.
WorkArea(a) ==
    TempArea(TempPath(a.temp_dir))
        \cup { rebuilt_bsdiff_path(a.save_patch, TempPath(a.temp_dir)),
               Gz(rebuilt_bsdiff_path(a.save_patch, TempPath(a.temp_dir))) }

OldApk == <<"w", "old.apk">>
NewApk == <<"w", "new.apk">>
MyPatch == <<"w", "mypatch">>

\* The regular-file paths of the modelled file system.
Paths ==
    UNION { TempArea(TempPath(d)) : d \in TempDirs }
        \cup { OldApk, Gz(OldApk), NewApk, MyPatch, Gz(MyPatch), Gz(Gz(MyPatch)) }

\* ---------------------------------------------------------------- state
VARIABLES
    fs,        \* the file system: path -> NoFile or File(bytes)
    dirs,      \* directory -> "missing", "ro" (not writable) or "rw"
    bins,      \* the module globals bsdiff_path, gzip_path, ...: the names resolved so far
    sched,     \* how the calls are issued: "single", "serial" or "concurrent"
    pc,        \* per invocation: the statement it is at
    args,      \* per invocation: --old-file, --new-file, --save-patch, --temp-dir
    sizes,     \* per invocation: the locals bsdiff_patch_size and gzipped_new_file_size
    result,    \* per invocation: the dictionary returned, if any
    error,     \* per invocation: the exception raised, if any
    log,       \* per invocation: the external processes started, with their exit status
    start_fs,  \* per invocation: the file system when the call started
    raw_diff,  \* per invocation: the bytes bsdiff wrote to temp_path
    touched    \* per invocation: every path calculate_sizes tested, read, wrote or removed

vars == <<fs, dirs, bins, sched, pc, args, sizes, result, error, log, start_fs,
          raw_diff, touched>>

Inv == {1, 2}

\* ---------------------------------------------------------------- errors
NoError == [kind |-> "none", text |-> "", code |-> 0]
PyException(text, code) == [kind |-> "Exception", text |-> text, code |-> code]
\* subprocess.check_output raises CalledProcessError on a non-zero status.
CalledProcessError(tool, code) == [kind |-> "CalledProcessError", text |-> tool, code |-> code]
\* os.remove and os.stat raise OSError, open raises IOError.
OSError(path) == [kind |-> "OSError", text |-> "remove or stat", code |-> 0]
IOError(path) == [kind |-> "IOError", text |-> "open", code |-> 0]

NoResult == [returned |-> FALSE, gzipped_new_file_size |-> 0, bsdiff_patch_size |-> 0]
NoSizes == [bsdiff_patch_size |-> 0, gzipped_new_file_size |-> 0]

\* One external process: the tool, how it was launched, and its exit status.
Call(tool, via, rc) == [tool |-> tool, via |-> via, rc |-> rc]

\* ------------------------------------------------------------ file system
Exists(f, p) == f[p].exists
Writable(p) == dirs[p[1]] = "rw"

\* `if os.path.exists(p): os.remove(p)` for each p of ps in turn; os.remove
\* raises OSError in a directory that is not writable.
RECURSIVE RemoveIfExists(_, _)
RemoveIfExists(f, ps) ==
    IF ps = <<>> THEN [fs |-> f, calls |-> <<>>, err |-> NoError]
    ELSE LET p == Head(ps)
         IN  IF ~Exists(f, p) THEN RemoveIfExists(f, Tail(ps))
             ELSE IF ~Writable(p) THEN [fs |-> f, calls |-> <<>>, err |-> OSError(p)]
             ELSE RemoveIfExists([f EXCEPT ![p] = NoFile], Tail(ps))

\* An exit status: the injected one (a tool may fail for reasons outside the
\* model: a signal, a full disk), or else the one the tool's inputs decide.
ExitStatus(injected, semantic) == IF injected # 0 THEN injected ELSE semantic

\* A variant of PopenFailed that misses the negative statuses wait() returns
\* for a child killed by a signal.
PopenFailedPositiveOnly(ret_code) == ret_code > 0
\* The test `if ret_code != 0` after p.wait().
PopenFailed(ret_code) == ret_code # 0
\* check_output's own test of the exit status.
CheckOutputFailed(ret_code) == ret_code # 0

\* ------------------------------------------------------------------ main
IsFile(f, p) == p \in Paths /\ dirs[p[1]] # "missing" /\ f[p].exists
IsDir(p) == Len(p) = 1 /\ p[1] \in DirNames /\ dirs[p[1]] # "missing"
\* os.access(os.path.dirname(os.path.abspath(p)), os.W_OK); a bare directory
\* name has the current directory as its parent, which is writable here.
ParentWritable(p) == IF Len(p) <= 1 THEN TRUE ELSE dirs[p[1]] = "rw"

\* main's checks of its arguments, in their order: the first that fails raises.
MainCheck(f, a) ==
    IF ~IsFile(f, a.old_file) THEN PyException("File does not exist: old_file", 0)
    ELSE IF ~IsFile(f, a.new_file) THEN PyException("File does not exist: new_file", 0)
    ELSE IF a.save_patch # NoPath /\ ~ParentWritable(a.save_patch)
        THEN PyException("The save patch path is not writable", 0)
    ELSE IF a.save_patch # NoPath /\ IsDir(a.save_patch)
        THEN PyException("Please include the filename in the path", 0)
    ELSE IF ~IsDir(<<a.temp_dir>>) THEN PyException("Temp directory does not exist", 0)
    ELSE NoError

\* ------------------------------------------------------- find_bins_or_die
BinOrder == <<"bsdiff", "gzip", "head", "tail", "bunzip2">>
AllBins == {BinOrder[k] : k \in 1..Len(BinOrder)}

\* find_bins_or_die: each binary not yet resolved is looked up with `which`;
\* the first that is not installed raises.
RECURSIVE FindBins(_, _, _)
FindBins(cache, installed, k) ==
    IF k > Len(BinOrder) THEN [bins |-> cache, calls |-> <<>>, err |-> NoError]
    ELSE LET b == BinOrder[k]
         IN  IF b \in cache THEN FindBins(cache, installed, k + 1)
             ELSE IF b \notin installed
                 THEN [bins |-> cache, calls |-> <<Call("which", "check_output", 1)>>,
                       err |-> PyException("No binary on PATH, please install or fix PATH.", 0)]
             ELSE LET rest == FindBins(cache \cup {b}, installed, k + 1)
                  IN  [rest EXCEPT !.calls = <<Call("which", "check_output", 0)>> \o @]

\* ------------------------------------------------- calculate_sizes, by step
\* Lines 116-117.
StepClearTemp(f, a) ==
    LET tp == TempPath(a.temp_dir) IN RemoveIfExists(f, <<Gz(tp), tp>>)

\* Lines 123-124: bsdiff old_file new_file temp_path.  A failing bsdiff may
\* already have created its output (partial = TRUE) or not.
StepBsdiff(f, a, injected, partial) ==
    LET tp == TempPath(a.temp_dir)
        readable == IsFile(f, a.old_file) /\ IsFile(f, a.new_file)
        rc == ExitStatus(injected, IF readable /\ Writable(tp) THEN 0 ELSE 1)
        out == IF readable THEN BsdiffData(f[a.old_file].data, f[a.new_file].data) ELSE <<>>
        f2 == IF rc = 0 THEN [f EXCEPT ![tp] = File(out)]
              ELSE IF partial /\ readable /\ Writable(tp)
                  THEN [f EXCEPT ![tp] = File(Take(out, HeaderLen))]
              ELSE f
    IN  [fs |-> f2, calls |-> <<Call("bsdiff", "check_output", rc)>>,
         err |-> IF CheckOutputFailed(rc) THEN CalledProcessError("bsdiff", rc) ELSE NoError]

\* Lines 126-133.
StepClearDerived(f, a) ==
    LET tp == TempPath(a.temp_dir)
    IN  RemoveIfExists(f, <<raw_bsdiff_path(tp), bzipped_bsdiff_path(tp),
                            gzipped_bsdiff_path(tp), bsdiff_header_path(tp)>>)

\* Line 138: the file `head -c 32` is given to read.
HeadSource(a) == bsdiff_header_path(TempPath(a.temp_dir))
\* A variant of HeadErrorText that names the step that ran.
HeadErrorTextNamingHead == "Problem at the head step, returned code: %s"
\* Line 142: the message raised when head fails.
HeadErrorText == "Problem at the bsdiff step, returned code: %s"

\* Lines 136-144: open(bsdiff_header_path, 'w'), then head -c 32 into it.
StepHead(f, a, injected) ==
    LET hp == bsdiff_header_path(TempPath(a.temp_dir))
        f1 == [f EXCEPT ![hp] = File(<<>>)]
        src == HeadSource(a)
        rc == ExitStatus(injected, IF Exists(f1, src) THEN 0 ELSE 1)
        out == IF rc = 0 THEN Take(f1[src].data, HeaderLen) ELSE <<>>
    IN  IF ~Writable(hp) THEN [fs |-> f, calls |-> <<>>, err |-> IOError(hp)]
        ELSE [fs |-> [f1 EXCEPT ![hp] = File(out)],
              calls |-> <<Call("head", "Popen", rc)>>,
              err |-> IF PopenFailed(rc) THEN PyException(HeadErrorText, rc) ELSE NoError]

\* Lines 147-155: open(bzipped_bsdiff_path, 'w'), then tail -c +33 temp_path.
StepTail(f, a, injected) ==
    LET tp == TempPath(a.temp_dir)
        bp == bzipped_bsdiff_path(tp)
        f1 == [f EXCEPT ![bp] = File(<<>>)]
        rc == ExitStatus(injected, IF Exists(f1, tp) THEN 0 ELSE 1)
        out == IF rc = 0 THEN Drop(f1[tp].data, TailFrom - 1) ELSE <<>>
    IN  IF ~Writable(bp) THEN [fs |-> f, calls |-> <<>>, err |-> IOError(bp)]
        ELSE [fs |-> [f1 EXCEPT ![bp] = File(out)],
              calls |-> <<Call("tail", "Popen", rc)>>,
              err |-> IF PopenFailed(rc)
                      THEN PyException("Problem at the tail step, returned code: %s", rc)
                      ELSE NoError]

\* Line 156: bunzip2 -d -q bzipped_bsdiff_path writes the path without
\* ".bz2" and removes its input; it refuses an existing output file.
StepBunzip2(f, a, injected) ==
    LET tp == TempPath(a.temp_dir)
        bp == bzipped_bsdiff_path(tp)
        rp == raw_bsdiff_path(tp)
        semantic == IF ~Exists(f, bp) THEN 1
                    ELSE IF ~Bunzip2Valid(f[bp].data) THEN 2
                    ELSE IF Exists(f, rp) \/ ~Writable(rp) THEN 1
                    ELSE 0
        rc == ExitStatus(injected, semantic)
    IN  [fs |-> IF rc = 0
                THEN [f EXCEPT ![rp] = File(Bunzip2Data(f[bp].data)), ![bp] = NoFile]
                ELSE f,
         calls |-> <<Call("bunzip2", "check_output", rc)>>,
         err |-> IF CheckOutputFailed(rc) THEN CalledProcessError("bunzip2", rc) ELSE NoError]

\* Lines 159-165.
StepClearRebuilt(f, a) ==
    LET rb == rebuilt_bsdiff_path(a.save_patch, TempPath(a.temp_dir))
    IN  RemoveIfExists(f, <<rb, Gz(rb)>>)

\* Lines 166-174: open(rebuilt_bsdiff_path, 'w'), then cat header raw into it.
StepCat(f, a, injected) ==
    LET tp == TempPath(a.temp_dir)
        rb == rebuilt_bsdiff_path(a.save_patch, tp)
        hp == bsdiff_header_path(tp)
        rp == raw_bsdiff_path(tp)
        f1 == [f EXCEPT ![rb] = File(<<>>)]
        rc == ExitStatus(injected, IF Exists(f1, hp) /\ Exists(f1, rp) THEN 0 ELSE 1)
        out == IF injected # 0 THEN <<>> ELSE f1[hp].data \o f1[rp].data
    IN  IF ~Writable(rb) THEN [fs |-> f, calls |-> <<>>, err |-> IOError(rb)]
        ELSE [fs |-> [f1 EXCEPT ![rb] = File(out)],
              calls |-> <<Call("cat", "Popen", rc)>>,
              err |-> IF PopenFailed(rc)
                      THEN PyException("Problem at the cat step, returned code: %s", rc)
                      ELSE NoError]

\* gzip leaves a file whose name already ends in .gz unchanged, with a warning.
HasGzSuffix(path) == path[Len(path)] = ".gz"

\* Lines 177-178: gzip -9 rebuilt_bsdiff_path writes path + '.gz' and removes
\* its input; it refuses an existing output file, and leaves an input that
\* already has the .gz suffix unchanged, which newer gzip versions report with
\* status 0 and older ones with 2 (warned).  Then os.stat(path + '.gz').st_size,
\* which raises OSError when that file does not exist.
StepGzipPatch(f, a, injected, warned) ==
    LET rb == rebuilt_bsdiff_path(a.save_patch, TempPath(a.temp_dir))
        semantic == IF ~Exists(f, rb) \/ ~Writable(rb) THEN 1
                    ELSE IF HasGzSuffix(rb) THEN warned
                    ELSE IF Exists(f, Gz(rb)) THEN 2
                    ELSE 0
        rc == ExitStatus(injected, semantic)
        f2 == IF rc = 0 /\ ~HasGzSuffix(rb)
              THEN [f EXCEPT ![Gz(rb)] = File(Gzip9Data(f[rb].data)), ![rb] = NoFile]
              ELSE f
    IN  [fs |-> f2, calls |-> <<Call("gzip", "check_output", rc)>>,
         err |-> IF CheckOutputFailed(rc) THEN CalledProcessError("gzip", rc)
                 ELSE IF ~Exists(f2, Gz(rb)) THEN OSError(Gz(rb))
                 ELSE NoError,
         size |-> Len(f2[Gz(rb)].data)]

\* Lines 181-190: open(temp_path, 'w'), then gzip --keep -c -9 new_file into
\* it, then os.stat(temp_path).st_size.
StepGzipNew(f, a, injected) ==
    LET tp == TempPath(a.temp_dir)
        f1 == [f EXCEPT ![tp] = File(<<>>)]
        rc == ExitStatus(injected, IF IsFile(f1, a.new_file) THEN 0 ELSE 1)
        out == IF rc = 0 THEN Gzip9Data(f1[a.new_file].data) ELSE <<>>
    IN  IF ~Writable(tp) THEN [fs |-> f, calls |-> <<>>, err |-> IOError(tp), size |-> 0]
        ELSE [fs |-> [f1 EXCEPT ![tp] = File(out)],
              calls |-> <<Call("gzip", "Popen", rc)>>,
              err |-> IF PopenFailed(rc)
                      THEN PyException("Problem gzipping the new APK, returned code: %s", rc)
                      ELSE NoError,
              size |-> Len(out)]

\* Lines 193-194.
StepCleanUp(f, a) ==
    LET tp == TempPath(a.temp_dir)
    IN  RemoveIfExists(f, <<tp, gzipped_bsdiff_path(tp)>>)

\* ---------------------------------------------------------------- actions
\* The exit statuses a tool may be made to return (0: the tool decides).
RetCodes == (0 - MaxRc)..MaxRc
\* What `which` may find installed: everything, or everything but one binary.
InstalledChoices == {AllBins} \cup {AllBins \ {b} : b \in AllBins}

Terminal == {"returned", "raised", "rejected"}

\* The effect of one step of calculate_sizes on the shared state: r is the
\* step's outcome, next the statement that follows, paths what it accessed.
Advance(i, r, next, paths) ==
    /\ fs' = r.fs
    /\ log' = [log EXCEPT ![i] = @ \o r.calls]
    /\ error' = [error EXCEPT ![i] = r.err]
    /\ pc' = [pc EXCEPT ![i] = IF r.err = NoError THEN next ELSE "raised"]
    /\ touched' = [touched EXCEPT ![i] = @ \cup paths]

\* main, lines 220-236: validate the arguments, then call calculate_sizes.
Main(i) ==
    /\ pc[i] = "idle"
    /\ \/ i = 1
       \/ sched = "concurrent"
       \/ sched = "serial" /\ pc[1] \in Terminal
    /\ LET e == MainCheck(fs, args[i])
       IN  /\ error' = [error EXCEPT ![i] = e]
           /\ pc' = [pc EXCEPT ![i] = IF e = NoError THEN "clear_temp" ELSE "rejected"]
    /\ start_fs' = [start_fs EXCEPT ![i] = fs]
    /\ UNCHANGED <<fs, dirs, bins, sched, args, sizes, result, log, raw_diff, touched>>

ClearTemp(i) ==
    /\ pc[i] = "clear_temp"
    /\ LET tp == TempPath(args[i].temp_dir)
       IN  Advance(i, StepClearTemp(fs, args[i]), "find_bins", {Gz(tp), tp})
    /\ UNCHANGED <<dirs, bins, sched, args, sizes, result, start_fs, raw_diff>>

FindBinsOrDie(i) ==
    /\ pc[i] = "find_bins"
    /\ \E installed \in InstalledChoices :
          LET r == FindBins(bins, installed, 1)
          IN  /\ bins' = r.bins
              /\ log' = [log EXCEPT ![i] = @ \o r.calls]
              /\ error' = [error EXCEPT ![i] = r.err]
              /\ pc' = [pc EXCEPT ![i] = IF r.err = NoError THEN "bsdiff" ELSE "raised"]
    /\ UNCHANGED <<fs, dirs, sched, args, sizes, result, start_fs, raw_diff, touched>>

Bsdiff(i) ==
    /\ pc[i] = "bsdiff"
    /\ \E injected \in RetCodes, partial \in BOOLEAN :
          LET r == StepBsdiff(fs, args[i], injected, partial)
              tp == TempPath(args[i].temp_dir)
          IN  /\ Advance(i, r, "clear_derived", {args[i].old_file, args[i].new_file, tp})
              /\ raw_diff' = [raw_diff EXCEPT ![i] = r.fs[tp].data]
    /\ UNCHANGED <<dirs, bins, sched, args, sizes, result, start_fs>>

ClearDerived(i) ==
    /\ pc[i] = "clear_derived"
    /\ LET tp == TempPath(args[i].temp_dir)
       IN  Advance(i, StepClearDerived(fs, args[i]), "head",
                   {raw_bsdiff_path(tp), bzipped_bsdiff_path(tp),
                    gzipped_bsdiff_path(tp), bsdiff_header_path(tp)})
    /\ UNCHANGED <<dirs, bins, sched, args, sizes, result, start_fs, raw_diff>>

HeadStep(i) ==
    /\ pc[i] = "head"
    /\ \E injected \in RetCodes :
          Advance(i, StepHead(fs, args[i], injected), "tail",
                  {bsdiff_header_path(TempPath(args[i].temp_dir)), HeadSource(args[i])})
    /\ UNCHANGED <<dirs, bins, sched, args, sizes, result, start_fs, raw_diff>>

TailStep(i) ==
    /\ pc[i] = "tail"
    /\ \E injected \in RetCodes :
          LET tp == TempPath(args[i].temp_dir)
          IN  Advance(i, StepTail(fs, args[i], injected), "bunzip2",
                      {bzipped_bsdiff_path(tp), tp})
    /\ UNCHANGED <<dirs, bins, sched, args, sizes, result, start_fs, raw_diff>>

Bunzip2(i) ==
    /\ pc[i] = "bunzip2"
    /\ \E injected \in RetCodes :
          LET tp == TempPath(args[i].temp_dir)
          IN  Advance(i, StepBunzip2(fs, args[i], injected), "clear_rebuilt",
                      {bzipped_bsdiff_path(tp), raw_bsdiff_path(tp)})
    /\ UNCHANGED <<dirs, bins, sched, args, sizes, result, start_fs, raw_diff>>

ClearRebuilt(i) ==
    /\ pc[i] = "clear_rebuilt"
    /\ LET rb == rebuilt_bsdiff_path(args[i].save_patch, TempPath(args[i].temp_dir))
       IN  Advance(i, StepClearRebuilt(fs, args[i]), "cat", {rb, Gz(rb)})
    /\ UNCHANGED <<dirs, bins, sched, args, sizes, result, start_fs, raw_diff>>

CatStep(i) ==
    /\ pc[i] = "cat"
    /\ \E injected \in RetCodes :
          LET tp == TempPath(args[i].temp_dir)
          IN  Advance(i, StepCat(fs, args[i], injected), "gzip_patch",
                      {rebuilt_bsdiff_path(args[i].save_patch, tp),
                       bsdiff_header_path(tp), raw_bsdiff_path(tp)})
    /\ UNCHANGED <<dirs, bins, sched, args, sizes, result, start_fs, raw_diff>>

GzipPatch(i) ==
    /\ pc[i] = "gzip_patch"
    /\ \E injected \in RetCodes, warned \in {0, 2} :
          LET r == StepGzipPatch(fs, args[i], injected, warned)
              rb == rebuilt_bsdiff_path(args[i].save_patch, TempPath(args[i].temp_dir))
          IN  /\ Advance(i, r, "gzip_new", {rb, Gz(rb)})
              /\ sizes' = [sizes EXCEPT ![i].bsdiff_patch_size =
                              IF r.err = NoError THEN r.size ELSE @]
    /\ UNCHANGED <<dirs, bins, sched, args, result, start_fs, raw_diff>>

GzipNew(i) ==
    /\ pc[i] = "gzip_new"
    /\ \E injected \in RetCodes :
          LET r == StepGzipNew(fs, args[i], injected)
          IN  /\ Advance(i, r, "clean_up", {TempPath(args[i].temp_dir), args[i].new_file})
              /\ sizes' = [sizes EXCEPT ![i].gzipped_new_file_size =
                              IF r.err = NoError THEN r.size ELSE @]
    /\ UNCHANGED <<dirs, bins, sched, args, result, start_fs, raw_diff>>

\* Lines 192-197: the clean-up and the return of the dictionary.
CleanUp(i) ==
    /\ pc[i] = "clean_up"
    /\ LET r == StepCleanUp(fs, args[i])
           tp == TempPath(args[i].temp_dir)
       IN  /\ Advance(i, r, "returned", {tp, gzipped_bsdiff_path(tp)})
           /\ result' = [result EXCEPT ![i] =
                            IF r.err = NoError
                            THEN [returned |-> TRUE,
                                  gzipped_new_file_size |-> sizes[i].gzipped_new_file_size,
                                  bsdiff_patch_size |-> sizes[i].bsdiff_patch_size]
                            ELSE @]
    /\ UNCHANGED <<dirs, bins, sched, args, sizes, start_fs, raw_diff>>

Next ==
    \E i \in Inv :
        \/ Main(i)
        \/ ClearTemp(i)
        \/ FindBinsOrDie(i)
        \/ Bsdiff(i)
        \/ ClearDerived(i)
        \/ HeadStep(i)
        \/ TailStep(i)
        \/ Bunzip2(i)
        \/ ClearRebuilt(i)
        \/ CatStep(i)
        \/ GzipPatch(i)
        \/ GzipNew(i)
        \/ CleanUp(i)

\* ------------------------------------------------------------ initial states
\* Test contents: a ramp 1, 2, ..., n and a run of n equal bytes.
Ramp(n) == [k \in 1..n |-> k]
Flat(n) == [k \in 1..n |-> 7]
OldDatas == {Ramp(MaxData - 1), Flat(MaxData)}
NewDatas == {Ramp(MaxData), Flat(MaxData)}
\* What a stale file left at a path holds.
Junk == <<9, 9>>

\* A file system: the old and the new file as given (NoFile: missing), junk
\* at every other path when stale, nothing in a missing directory.
InitFs(d, old_path, old, new_path, new, stale) ==
    [p \in Paths |->
        IF d[p[1]] = "missing" THEN NoFile
        ELSE IF p = old_path THEN old
        ELSE IF p = new_path THEN new
        ELSE IF stale THEN File(Junk)
        ELSE NoFile]

InitCalls(s) ==
    /\ sched = s
    /\ bins = {}
    /\ pc = [i \in Inv |-> "idle"]
    /\ sizes = [i \in Inv |-> NoSizes]
    /\ result = [i \in Inv |-> NoResult]
    /\ error = [i \in Inv |-> NoError]
    /\ log = [i \in Inv |-> <<>>]
    /\ start_fs = [i \in Inv |-> [p \in Paths |-> NoFile]]
    /\ raw_diff = [i \in Inv |-> <<>>]
    /\ touched = [i \in Inv |-> {}]

Args(old_file, new_file, save_patch, temp_dir) ==
    [old_file |-> old_file, new_file |-> new_file, save_patch |-> save_patch,
     temp_dir |-> temp_dir]

\* One call of main, over every kind of argument and directory state.
Init ==
    /\ InitCalls("single")
    /\ dirs \in {[d \in DirNames |-> IF d = "w" THEN x ELSE IF d = "t" THEN y ELSE "rw"] :
                    x \in {"rw", "ro"}, y \in {"missing", "ro", "rw"}}
    /\ \E old_file \in {OldApk, TempPath("t")},
          new_file \in {NewApk, Gz(MyPatch)},
          save_patch \in {NoPath, MyPatch, OldApk, <<"w">>} :
          /\ args = [i \in Inv |-> Args(old_file, new_file, save_patch, "t")]
          /\ \E old \in {NoFile} \cup {File(x) : x \in OldDatas},
                new \in {NoFile} \cup {File(x) : x \in NewDatas},
                stale \in BOOLEAN :
                fs = InitFs(dirs, old_file, old, new_file, new, stale)

Spec == Init /\ [][Next]_vars

\* Two calls one after the other in one process, on the same old file, new
\* file and temp directory; the second starts when the first has ended.
InitSerial ==
    /\ InitCalls("serial")
    /\ dirs = [d \in DirNames |-> "rw"]
    /\ \E new_file \in {NewApk, Gz(MyPatch)},
          save1 \in {NoPath, MyPatch}, save2 \in {NoPath, MyPatch} :
          /\ args = [i \in Inv |-> Args(OldApk, new_file, IF i = 1 THEN save1 ELSE save2, "t")]
          /\ \E old \in OldDatas, new \in NewDatas, stale \in BOOLEAN :
                fs = InitFs(dirs, OldApk, File(old), new_file, File(new), stale)

SpecSerial == InitSerial /\ [][Next]_vars

\* Two calls whose steps interleave, each with its own temp directory and
\* save path, or sharing them.
InitConcurrent ==
    /\ InitCalls("concurrent")
    /\ dirs = [d \in DirNames |-> "rw"]
    /\ \E save1 \in {NoPath, MyPatch, Gz(MyPatch)},
          save2 \in {NoPath, MyPatch, Gz(MyPatch)},
          temp2 \in TempDirs :
          args = [i \in Inv |-> IF i = 1 THEN Args(OldApk, NewApk, save1, "t")
                                ELSE Args(OldApk, NewApk, save2, temp2)]
    /\ fs = InitFs(dirs, OldApk, File(Ramp(MaxData - 1)), NewApk, File(Flat(MaxData)), FALSE)

SpecConcurrent == InitConcurrent /\ [][Next]_vars

\* ------------------------------------------------------------------ claims
\* calculate_sizes was entered by invocation i.
Called(i) == pc[i] \notin {"idle", "rejected"}
RebuiltPath(i) == rebuilt_bsdiff_path(args[i].save_patch, TempPath(args[i].temp_dir))

\* C1: after a successful return the only file the call created or rewrote
\* at a WorkArea path is the compressed final patch, and only when a save
\* path was given; the uncompressed rebuilt patch is gone.
C1_OnlyFinalPatchSurvives ==
    \A i \in Inv :
        pc[i] = "returned" =>
            /\ ~Exists(fs, RebuiltPath(i))
            /\ \A p \in WorkArea(args[i]) :
                  (Exists(fs, p) /\ fs[p] # start_fs[i][p]) =>
                      /\ args[i].save_patch # NoPath
                      /\ p = Gz(args[i].save_patch)

\* C2: once tail has run, the header file holds the first 32 bytes of the raw
\* diff R and the payload file the rest; once cat has run, the rebuilt patch is
\* (first 32 bytes of R) followed by bunzip2 of (R from offset 32 on).
C2_TranscodedPatchIsHeaderPlusPayload ==
    \A i \in Inv :
        LET tp == TempPath(args[i].temp_dir)
            R == raw_diff[i]
        IN  Len(R) >= 32 =>
                /\ pc[i] = "bunzip2" =>
                      /\ fs[bsdiff_header_path(tp)].data = SubSeq(R, 1, 32)
                      /\ fs[bzipped_bsdiff_path(tp)].data = SubSeq(R, 33, Len(R))
                /\ pc[i] = "gzip_patch" =>
                      fs[RebuiltPath(i)].data
                          = SubSeq(R, 1, 32) \o Bunzip2Data(SubSeq(R, 33, Len(R)))

\* C3: when calculate_sizes raises, no file the call created is left at a
\* WorkArea path.
C3_NoArtifactAfterFailure ==
    \A i \in Inv :
        pc[i] = "raised" =>
            \A p \in WorkArea(args[i]) :
                Exists(fs, p) => fs[p] = start_fs[i][p]

\* C4: a non-zero exit status of any external process is the last process
\* the call starts; the call has raised and returned no dictionary.
C4_NonZeroExitStopsPipeline ==
    \A i \in Inv :
        \A k \in 1..Len(log[i]) :
            log[i][k].rc # 0 =>
                /\ k = Len(log[i])
                /\ pc[i] = "raised"
                /\ error[i] # NoError
                /\ result[i] = NoResult

\* A call whose bunzip2 (the last check_output tool before cat) succeeded and
\* whose cat then failed.
C4_Witness ==
    \E i \in Inv :
        /\ pc[i] = "raised"
        /\ Len(log[i]) >= 2
        /\ log[i][Len(log[i])] = Call("cat", "Popen", 1)
        /\ log[i][Len(log[i]) - 1] = Call("bunzip2", "check_output", 0)

\* C5: when the first Popen-launched step exits with c # 0 (everything before
\* it having succeeded), the exception's message is 'Problem at the bsdiff
\* step, returned code: c' and no other Popen step is started.
C5_FirstPopenFailureMessage ==
    \A i \in Inv :
        LET popen == {k \in 1..Len(log[i]) : log[i][k].via = "Popen"}
        IN  popen # {} =>
                LET first == CHOOSE k \in popen : \A m \in popen : k <= m
                    c == log[i][first].rc
                IN  (c # 0 /\ \A m \in 1..(first - 1) : log[i][m].rc = 0) =>
                        /\ error[i] = [kind |-> "Exception",
                                       text |-> "Problem at the bsdiff step, returned code: %s",
                                       code |-> c]
                        /\ popen = {first}
                        /\ pc[i] = "raised"

C5_Witness ==
    \E i \in Inv :
        /\ pc[i] = "raised"
        /\ Len(log[i]) >= 1
        /\ log[i][Len(log[i])] = Call("head", "Popen", 0 - 1)
        /\ error[i].code = 0 - 1

\* C6: on a successful return gzipped_new_file_size is the size of gzip -9 of
\* the bytes new_file held when the call started.
C6_NewFileSizeIsDirectGzip ==
    \A i \in Inv :
        pc[i] = "returned" =>
            result[i].gzipped_new_file_size
                = Len(Gzip9Data(start_fs[i][args[i].new_file].data))

\* The inputs C7 calls invalid, on the state the call started in.
InvalidInput(i) ==
    LET a == args[i]
        f == start_fs[i]
    IN  \/ ~IsFile(f, a.old_file)
        \/ ~IsFile(f, a.new_file)
        \/ a.save_patch # NoPath /\ ~ParentWritable(a.save_patch)
        \/ a.save_patch # NoPath /\ IsDir(a.save_patch)
        \/ dirs[a.temp_dir] # "rw"

\* C7: with an invalid input, no external process is started and no file is
\* created or removed.
C7_InvalidInputRejectedFirst ==
    \A i \in Inv :
        (pc[i] # "idle" /\ InvalidInput(i)) =>
            /\ log[i] = <<>>
            /\ fs = start_fs[i]

\* The preconditions of estimate (section 4.3), on the state the call started in.
Preconditions(i) ==
    LET a == args[i]
        f == start_fs[i]
    IN  /\ IsFile(f, a.old_file)
        /\ IsFile(f, a.new_file)
        /\ dirs[a.temp_dir] = "rw"
        /\ a.save_patch # NoPath => (ParentWritable(a.save_patch) /\ ~IsDir(a.save_patch))

\* C9: under the preconditions, the old and the new file hold what they held
\* when the call started, during the call and after it.
C9_InputsUntouched ==
    \A i \in Inv :
        (Called(i) /\ Preconditions(i)) =>
            /\ fs[args[i].old_file] = start_fs[i][args[i].old_file]
            /\ fs[args[i].new_file] = start_fs[i][args[i].new_file]

\* C8: two successful calls on the same old file, new file (the same paths,
\* holding the same bytes when each call starts) and temp path return the
\* same two sizes.
C8_RepeatedCallSameSizes ==
    (/\ pc[1] = "returned"
     /\ pc[2] = "returned"
     /\ args[1].old_file = args[2].old_file
     /\ args[1].new_file = args[2].new_file
     /\ args[1].temp_dir = args[2].temp_dir
     /\ start_fs[1][args[1].old_file] = start_fs[2][args[2].old_file]
     /\ start_fs[1][args[1].new_file] = start_fs[2][args[2].new_file])
        => result[1] = result[2]

\* What calculate_sizes returns from file system f when nothing else runs and
\* no tool fails on its own: the steps composed in program order.
AloneSizes(f, a) ==
    LET s1 == StepClearTemp(f, a)
        s2 == StepBsdiff(s1.fs, a, 0, FALSE)
        s3 == StepClearDerived(s2.fs, a)
        s4 == StepHead(s3.fs, a, 0)
        s5 == StepTail(s4.fs, a, 0)
        s6 == StepBunzip2(s5.fs, a, 0)
        s7 == StepClearRebuilt(s6.fs, a)
        s8 == StepCat(s7.fs, a, 0)
        s9 == StepGzipPatch(s8.fs, a, 0, 0)
        s10 == StepGzipNew(s9.fs, a, 0)
        s11 == StepCleanUp(s10.fs, a)
    IN  [returned |-> {s1.err, s2.err, s3.err, s4.err, s5.err, s6.err, s7.err,
                       s8.err, s9.err, s10.err, s11.err} = {NoError},
         gzipped_new_file_size |-> s10.size,
         bsdiff_patch_size |-> s9.size]

\* Invocation i keeps to itself with respect to j: once j has started, i has
\* accessed no WorkArea path of j, and what i returned is what it returns when
\* run alone.
KeepsToItself(i, j) ==
    /\ pc[j] # "idle" => touched[i] \cap WorkArea(args[j]) = {}
    /\ pc[i] = "returned" => result[i] = AloneSizes(start_fs[i], args[i])

SaveArea(a) == IF a.save_patch = NoPath THEN {} ELSE {a.save_patch, Gz(a.save_patch)}

\* The arguments of i and j keep the two calls apart: distinct temp
\* directories, save paths whose SaveAreas are disjoint, and no save path or
\* input file inside either temp directory or inside a SaveArea.
ArgsApart(i, j) ==
    LET inputs == {args[i].old_file, args[i].new_file, args[j].old_file, args[j].new_file}
        saves == SaveArea(args[i]) \cup SaveArea(args[j])
    IN  /\ args[i].temp_dir # args[j].temp_dir
        /\ SaveArea(args[i]) \cap SaveArea(args[j]) = {}
        /\ inputs \cap saves = {}
        /\ \A p \in inputs \cup saves : p[1] \notin {args[i].temp_dir, args[j].temp_dir}

C10_SharedTempPathInterference ==
    \E i, j \in Inv :
        /\ i # j
        /\ args[i].temp_dir = args[j].temp_dir
        /\ pc[i] \in {"clear_derived", "head", "tail"}
        /\ ~Exists(fs, TempPath(args[i].temp_dir))
        /\ TempPath(args[i].temp_dir) \in touched[j]
C10_NoSharedTempPathInterference == ~C10_SharedTempPathInterference

\* --------------------------------------------------------- supporting facts
\* The arguments of i name no file twice: no input file is a WorkArea path.
NoAliasing(i) == {args[i].old_file, args[i].new_file} \cap WorkArea(args[i]) = {}

\* What a successful call does leave: the header file, the decompressed
\* payload and the compressed rebuilt patch; the uncompressed rebuilt patch
\* and temp_path are gone.
LeftAfterReturn ==
    \A i \in Inv :
        (sched = "single" /\ pc[i] = "returned") =>
            LET tp == TempPath(args[i].temp_dir)
            IN  /\ {p \in WorkArea(args[i]) : Exists(fs, p) /\ fs[p] # start_fs[i][p]}
                      = {bsdiff_header_path(tp), raw_bsdiff_path(tp), Gz(RebuiltPath(i))}
                /\ ~Exists(fs, RebuiltPath(i))
                /\ ~Exists(fs, tp)

\* The header file is empty whenever head succeeded: head reads the file it
\* writes.
HeaderFileEmpty ==
    \A i \in Inv :
        (sched = "single" /\ pc[i] \in {"tail", "bunzip2", "clear_rebuilt", "cat"}) =>
            fs[bsdiff_header_path(TempPath(args[i].temp_dir))] = File(<<>>)

\* The payload half of C2 does hold: the file tail writes is R from offset 32.
PayloadFileIsTail ==
    \A i \in Inv :
        (sched = "single" /\ pc[i] = "bunzip2") =>
            fs[bzipped_bsdiff_path(TempPath(args[i].temp_dir))].data
                = SubSeq(raw_diff[i], 33, Len(raw_diff[i]))

\* Every invalid input other than a temp directory that is not writable is
\* rejected by main before anything else happens.
InvalidInputButTempWritableRejected ==
    \A i \in Inv :
        (pc[i] # "idle" /\ InvalidInput(i) /\ dirs[args[i].temp_dir] # "ro") =>
            /\ pc[i] = "rejected"
            /\ log[i] = <<>>
            /\ fs = start_fs[i]

\* Without aliasing, C6 and C9 hold.
NoAliasNewFileSizeIsDirectGzip ==
    \A i \in Inv :
        (pc[i] = "returned" /\ NoAliasing(i)) =>
            result[i].gzipped_new_file_size
                = Len(Gzip9Data(start_fs[i][args[i].new_file].data))
NoAliasInputsUntouched ==
    \A i \in Inv :
        (Called(i) /\ NoAliasing(i)) =>
            /\ fs[args[i].old_file] = start_fs[i][args[i].old_file]
            /\ fs[args[i].new_file] = start_fs[i][args[i].new_file]
\* Without aliasing in either call, C8 holds.
NoAliasRepeatedCallSameSizes ==
    (NoAliasing(1) /\ NoAliasing(2)) => C8_RepeatedCallSameSizes

====
